---- MODULE Spec2Model ----
(***************************************************************************)
(* PEP 440 range handling of renovate: getNewValue, getFutureVersion,      *)
(* getUserReplacePrecision, getFutureReplaceVersion and isLessThanRange.   *)
(*                                                                         *)
(* Two variants of the module are modelled: the one with the replace       *)
(* precision (src/unnamed/part_001, plain names below) and the older one   *)
(* (src/lib/versioning/pep440/range.ts, names ending in _range).           *)
(*                                                                         *)
(* Representation.  A version string is its release tuple, a non-empty     *)
(* sequence of naturals ("1.2.0" is <<1, 2, 0>>); only final releases are  *)
(* modelled.  A text is a record [kind, ranges, spaced]: the clauses       *)
(* written in it, and whether its separator is ", " rather than ",".  A    *)
(* clause is [operator, version, prefix]; a bare version such as "1.2.0"   *)
(* is the one clause with the empty operator.  Two texts are the same      *)
(* string exactly when the records are equal.                              *)
(***************************************************************************)
EXTENDS Integers, Sequences, FiniteSets, TLC

\* pc: "start" before the call, "done" after it; fn: the function called;
\* the arguments of the call; result: what it returned; path: the return
\* statement getNewValue left by; calls: the invocations of getNewValue made.
VARIABLES pc, fn, currentValue, rangeStrategy, currentVersion, newVersion,
          baseVersion, step, ranges, input, range, result, path, calls

vars == <<pc, fn, currentValue, rangeStrategy, currentVersion, newVersion,
          baseVersion, step, ranges, input, range, result, path, calls>>

(***************************************************************************)
(* Bounds of the model.                                                    *)
(***************************************************************************)
MaxPart == 1
MaxLen == 2
MaxStep == 2

Parts == 0..MaxPart

Versions == UNION {[1..n -> Parts] : n \in 1..MaxLen}

Max(a, b) == IF a >= b THEN a ELSE b

(***************************************************************************)
(* @renovatebot/pep440, as the module uses it on final releases.           *)
(***************************************************************************)

\* A release read at a position, a missing trailing component being zero.
Part(v, i) == IF i <= Len(v) THEN v[i] ELSE 0

\* compare of the library: -1, 0 or 1, positional with zero padding.
compare(a, b) ==
    LET D == {i \in 1..Max(Len(a), Len(b)) : Part(a, i) # Part(b, i)}
    IN  IF D = {} THEN 0
        ELSE LET i == CHOOSE k \in D : \A j \in D : k <= j
             IN  IF Part(a, i) < Part(b, i) THEN -1 ELSE 1

lt(a, b) == compare(a, b) < 0

lte(a, b) == compare(a, b) <= 0

gte(a, b) == compare(a, b) >= 0

\* version matches the prefix "v.*": its first Len(v) components are v.
PrefixMatch(version, v) == \A i \in 1..Len(v) : Part(version, i) = v[i]

Operators == {"==", "!=", "<=", ">=", "<", ">", "~=", "==="}

\* One specifier accepted by the parser of the library.
ValidClause(c) ==
    /\ c.operator \in Operators
    /\ c.operator = "~=" => Len(c.version) >= 2
    /\ c.prefix => c.operator \in {"==", "!="}

\* parseRange: the clauses of the text, or null (here: FALSE) when one of
\* them is no specifier.  The empty text parses to no clause.
parseRangeOk(text) == \A i \in 1..Len(text.ranges) : ValidClause(text.ranges[i])

\* One clause of a specifier set against a version.
contains(c, version) ==
    CASE c.operator = "==" ->
            IF c.prefix THEN PrefixMatch(version, c.version)
            ELSE compare(version, c.version) = 0
      [] c.operator = "!=" ->
            IF c.prefix THEN ~PrefixMatch(version, c.version)
            ELSE compare(version, c.version) # 0
      [] c.operator = "<=" -> compare(version, c.version) <= 0
      [] c.operator = ">=" -> compare(version, c.version) >= 0
      [] c.operator = "<" -> compare(version, c.version) < 0
      [] c.operator = ">" -> compare(version, c.version) > 0
      [] c.operator = "~=" ->
            /\ compare(version, c.version) >= 0
            /\ PrefixMatch(version, SubSeq(c.version, 1, Len(c.version) - 1))
      [] c.operator = "===" -> version = c.version
      [] OTHER -> FALSE

\* satisfies: the text parses and the version passes every clause of it.
satisfies(version, text) ==
    /\ text.kind = "text"
    /\ parseRangeOk(text)
    /\ \A i \in 1..Len(text.ranges) : contains(text.ranges[i], version)

(***************************************************************************)
(* Texts.                                                                  *)
(***************************************************************************)
Null == [kind |-> "null", ranges |-> <<>>, spaced |-> FALSE]

Clause(operator, version, prefix) ==
    [operator |-> operator, version |-> version, prefix |-> prefix]

\* The text of clauses joined by ", " (spaced) or by ",".
Text(rs, spaced) == [kind |-> "text", ranges |-> rs, spaced |-> spaced]

\* The bare version string.
VersionText(v) == Text(<<Clause("", v, FALSE)>>, FALSE)

(***************************************************************************)
(* enum ReplaceUserPolicy, and the two non-values of JavaScript.           *)
(***************************************************************************)
Major == 0
Minor == 1
Micro == 2
Bug == 3
NullPolicy == -1
UndefinedPolicy == -2

\* upperBound.findIndex((el, index) => el > lowerBound[index]), 0-based,
\* -1 when there is none.  lowerBound[index] past the end of lowerBound is
\* undefined, and el > undefined is false.
findIndex(upperBound, lowerBound) ==
    LET hits == {i \in 1..Len(upperBound) :
                    i <= Len(lowerBound) /\ upperBound[i] > lowerBound[i]}
    IN  IF hits = {} THEN -1
        ELSE (CHOOSE k \in hits : \A j \in hits : k <= j) - 1

\* ReplaceUserPolicy[ReplaceUserPolicy[index]]: the member, or undefined.
policyOfIndex(index) ==
    IF index \in {Major, Minor, Micro, Bug} THEN index ELSE UndefinedPolicy

getUserReplacePrecision(rs) ==
    IF Len(rs) # 2 THEN NullPolicy
    ELSE LET lowerBound == rs[1].version
             upperBound == rs[2].version
         IN  policyOfIndex(findIndex(upperBound, lowerBound))

\* What toRelease.map gives at the 0-based position index.
futureReplacePart(num, index, policy) ==
    IF index < policy THEN num
    ELSE IF index = policy THEN num + 1
    ELSE 0

getFutureReplaceVersion(newV, policy) ==
    [i \in 1..Len(newV) |-> futureReplacePart(newV[i], i - 1, policy)]

(***************************************************************************)
(* getFutureVersion of src/unnamed/part_001.                               *)
(***************************************************************************)
\* The callback of baseRelease.map at position index, threading `found`.
RECURSIVE futureMap(_, _, _, _, _)
futureMap(baseRelease, toRelease, st, index, acc) ==
    IF index > Len(baseRelease) THEN acc
    ELSE LET toPart == Part(toRelease, index)
         IN  IF acc.found
             THEN futureMap(baseRelease, toRelease, st, index + 1,
                     [acc EXCEPT !.out = Append(@, 0)])
             ELSE IF toPart > baseRelease[index]
             THEN futureMap(baseRelease, toRelease, st, index + 1,
                     [found |-> TRUE, out |-> Append(acc.out, toPart + st)])
             ELSE futureMap(baseRelease, toRelease, st, index + 1,
                     [acc EXCEPT !.out = Append(@, toPart)])

\* A faulty bumpLast: the step is not added.
bumpLast_noStep(release, st) == release

\* futureRelease[futureRelease.length - 1] += step
bumpLast(release, st) ==
    [release EXCEPT ![Len(release)] = @ + st]

\* if (!found) the last position takes the step.
notFoundFix(m, st) == IF ~m.found THEN bumpLast(m.out, st) ELSE m.out

getFutureVersion(baseV, newV, st) ==
    notFoundFix(futureMap(baseV, newV, st, 1, [found |-> FALSE, out |-> <<>>]), st)

(***************************************************************************)
(* getFutureVersion of src/lib/versioning/pep440/range.ts.  `set` is kept  *)
(* 1-based, 0 standing for the -1 of the code.                             *)
(***************************************************************************)
RECURSIVE futureMap_range(_, _, _, _)
futureMap_range(baseRelease, toRelease, index, acc) ==
    IF index > Len(baseRelease) THEN acc
    ELSE LET toPart == Part(toRelease, index)
         IN  IF acc.found /\ acc.set = 0
             THEN futureMap_range(baseRelease, toRelease, index + 1,
                     [acc EXCEPT !.set = index, !.out = Append(@, toPart)])
             ELSE IF acc.found
             THEN futureMap_range(baseRelease, toRelease, index + 1,
                     [acc EXCEPT !.out = Append(@, 0)])
             ELSE futureMap_range(baseRelease, toRelease, index + 1,
                     [acc EXCEPT !.found = (toPart > baseRelease[index]),
                                 !.out = Append(@, toPart)])

\* The three conditional increments after the map.
futureFix_range(m, st) ==
    LET a == IF m.set # 0
             THEN [m.out EXCEPT ![IF m.set = Len(m.out) THEN m.set - 1 ELSE m.set] = @ + st]
             ELSE m.out
        b == IF ~m.found THEN bumpLast(a, st) ELSE a
    IN  IF m.found /\ m.set = 0 THEN bumpLast(b, st) ELSE b

getFutureVersion_range(baseV, newV, st) ==
    futureFix_range(
        futureMap_range(baseV, newV, 1, [found |-> FALSE, set |-> 0, out |-> <<>>]),
        st)

(***************************************************************************)
(* getNewValue of src/unnamed/part_001.                                    *)
(***************************************************************************)
\* What a clause callback returns when no rule applies (null).
NullClause == Clause("null", <<>>, FALSE)

\* A faulty withinRangeStrategy: 'replace' does not take the shortcut.
withinRangeStrategy_autoOnly(rs) == rs = "auto"

\* rangeStrategy === 'auto' || rangeStrategy === 'replace'
withinRangeStrategy(rs) == rs \in {"auto", "replace"}

\* A faulty supportedStrategy: 'extend' is accepted as it is.
supportedStrategy_extend(rs) == rs \in {"replace", "bump", "widen", "extend"}

\* ['replace', 'bump', 'widen'].includes(rangeStrategy)
supportedStrategy(rs) == rs \in {"replace", "bump", "widen"}

\* A faulty lowerBoundStrategy: only 'bump' tightens the lower bound.
lowerBoundStrategy_bumpOnly(rs) == rs = "bump"

\* ['replace', 'bump'].includes(rangeStrategy)
lowerBoundStrategy(rs) == rs \in {"replace", "bump"}

\* A faulty hasArbitraryEquality: the '===' check is dropped.
hasArbitraryEquality_never(rs) == FALSE

\* ranges.some((range) => range.operator === '===')
hasArbitraryEquality(rs) == \E i \in 1..Len(rs) : rs[i].operator = "==="

\* The '!=' rule: range.operator + range.version.
excludeClause(r) == Clause(r.operator, r.version, FALSE)

\* The '>' and '>=' rule.
lowerBoundClause(r, rs, newV) ==
    IF lte(newV, r.version) THEN Clause(">=", newV, FALSE)
    ELSE IF lowerBoundStrategy(rs) /\ r.operator = ">="
    THEN Clause(r.operator, newV, FALSE)
    ELSE Clause(r.operator, r.version, FALSE)

\* The '<' rule.
upperBoundClause(r, all, rs, newV) ==
    IF gte(newV, r.version)
    THEN LET userReplacePolicy == getUserReplacePrecision(all)
         IN  IF rs = "replace" /\ userReplacePolicy \notin {NullPolicy, UndefinedPolicy}
             THEN Clause(r.operator, getFutureReplaceVersion(newV, userReplacePolicy), FALSE)
             ELSE Clause(r.operator, getFutureVersion(r.version, newV, 1), FALSE)
    ELSE Clause(r.operator, r.version, FALSE)

\* The callback of ranges.map.
rewriteClause(r, all, rs, newV) ==
    IF r.operator = "!=" THEN excludeClause(r)
    ELSE IF r.operator \in {">", ">="} THEN lowerBoundClause(r, rs, newV)
    ELSE IF r.operator = "<" THEN upperBoundClause(r, all, rs, newV)
    ELSE IF r.prefix
    THEN Clause(r.operator, getFutureVersion(r.version, newV, 0), TRUE)
    ELSE IF r.operator \in {"==", "~=", "<="} THEN Clause(r.operator, newV, FALSE)
    ELSE NullClause

\* .filter(Boolean)
filterBoolean(cs) == SelectSeq(cs, LAMBDA c : c # NullClause)

\* .join(', ') and the replacement of ', ' by ',' when currentValue has none.
joinClauses(cs, cv) ==
    LET joinedSpaced == Len(cs) >= 2
    IN  Text(cs, IF joinedSpaced /\ ~cv.spaced THEN FALSE ELSE joinedSpaced)

\* A faulty validated: the final check is dropped.
validated_unchecked(newV, res) == TRUE

\* The final check: satisfies(newVersion, result).
validated(newV, res) == satisfies(newV, res)

Return(ret, site) == [ret |-> ret, path |-> site, calls |-> 1]

\* The call, with the return statement taken (path) and the number of
\* invocations of getNewValue it made, itself included (calls).
RECURSIVE getNewValueCall(_, _, _, _)
getNewValueCall(cv, rs, cver, newV) ==
    IF rs = "pin" THEN Return(Text(<<Clause("==", newV, FALSE)>>, FALSE), "pin")
    ELSE IF cv = VersionText(cver) THEN Return(VersionText(newV), "version")
    ELSE IF ~parseRangeOk(cv) THEN Return(Null, "invalid")
    ELSE IF Len(cv.ranges) = 0 THEN Return(cv, "empty")
    ELSE IF withinRangeStrategy(rs) /\ satisfies(newV, cv) THEN Return(cv, "within")
    ELSE IF ~supportedStrategy(rs)
    THEN [getNewValueCall(cv, "replace", cver, newV) EXCEPT !.calls = @ + 1]
    ELSE IF hasArbitraryEquality(cv.ranges) THEN Return(Null, "arbitrary")
    ELSE LET mapped == [i \in 1..Len(cv.ranges) |->
                           rewriteClause(cv.ranges[i], cv.ranges, rs, newV)]
             res == joinClauses(filterBoolean(mapped), cv)
         IN  IF ~validated(newV, res) THEN Return(Null, "failed")
             ELSE Return(res, "rewritten")

getNewValue(cv, rs, cver, newV) == getNewValueCall(cv, rs, cver, newV).ret

(***************************************************************************)
(* getNewValue of src/lib/versioning/pep440/range.ts.                      *)
(***************************************************************************)
\* ['replace', 'bump'].includes(rangeStrategy)
supportedStrategy_range(rs) == rs \in {"replace", "bump"}

\* The '>' and '>=' rule.
lowerBoundClause_range(r, rs, newV) ==
    IF lte(newV, r.version) THEN Clause(">=", newV, FALSE)
    ELSE IF rs = "bump" /\ r.operator = ">="
    THEN Clause(r.operator, newV, FALSE)
    ELSE Clause(r.operator, r.version, FALSE)

\* The '<' rule.
upperBoundClause_range(r, newV) ==
    IF gte(newV, r.version)
    THEN Clause(r.operator, getFutureVersion_range(r.version, newV, 1), FALSE)
    ELSE Clause(r.operator, r.version, FALSE)

\* The callback of ranges.map.
rewriteClause_range(r, rs, newV) ==
    IF r.operator = "!=" THEN excludeClause(r)
    ELSE IF r.operator \in {">", ">="} THEN lowerBoundClause_range(r, rs, newV)
    ELSE IF r.operator = "<" THEN upperBoundClause_range(r, newV)
    ELSE IF r.prefix
    THEN Clause(r.operator, getFutureVersion_range(r.version, newV, 0), TRUE)
    ELSE IF r.operator \in {"==", "~=", "<="} THEN Clause(r.operator, newV, FALSE)
    ELSE NullClause

RECURSIVE getNewValueCall_range(_, _, _, _)
getNewValueCall_range(cv, rs, cver, newV) ==
    IF rs = "pin" THEN Return(Text(<<Clause("==", newV, FALSE)>>, FALSE), "pin")
    ELSE IF cv = VersionText(cver) THEN Return(VersionText(newV), "version")
    ELSE IF ~parseRangeOk(cv) THEN Return(Null, "invalid")
    ELSE IF Len(cv.ranges) = 0 THEN Return(cv, "empty")
    ELSE IF withinRangeStrategy(rs) /\ satisfies(newV, cv) THEN Return(cv, "within")
    ELSE IF ~supportedStrategy_range(rs)
    THEN [getNewValueCall_range(cv, "replace", cver, newV) EXCEPT !.calls = @ + 1]
    ELSE IF hasArbitraryEquality(cv.ranges) THEN Return(Null, "arbitrary")
    ELSE LET mapped == [i \in 1..Len(cv.ranges) |->
                           rewriteClause_range(cv.ranges[i], rs, newV)]
             res == joinClauses(filterBoolean(mapped), cv)
         IN  IF ~validated(newV, res) THEN Return(Null, "failed")
             ELSE Return(res, "rewritten")

getNewValue_range(cv, rs, cver, newV) == getNewValueCall_range(cv, rs, cver, newV).ret

(***************************************************************************)
(* isLessThanRange (the same in both files).                               *)
(***************************************************************************)
\* x.split(/(~=|==|!=|<=|>=|<|>|===)/).slice(1) on one clause: the first
\* operator the alternation matches, and what follows it.  "===" is matched
\* as "==" (which stands before it in the alternation), leaving "=" in front
\* of the version; a text with no operator leaves nothing (op undefined).
\* parses: the rest is a version the library can parse.
splitClause(c) ==
    IF c.operator = "" THEN [op |-> "undefined", version |-> c.version, parses |-> FALSE]
    ELSE IF c.operator = "===" THEN [op |-> "==", version |-> c.version, parses |-> FALSE]
    ELSE [op |-> c.operator, version |-> c.version, parses |-> ~c.prefix]

\* range.split(','): the empty string gives one empty piece.
splitRange(text) ==
    IF Len(text.ranges) = 0
    THEN <<[op |-> "undefined", version |-> <<>>, parses |-> FALSE]>>
    ELSE [i \in 1..Len(text.ranges) |-> splitClause(text.ranges[i])]

\* ['!=', '<=', '<'].includes(op)
permissive(op) == op \in {"!=", "<=", "<"}

\* The second callback: "true", "false", or "throw" when the library is
\* handed a version it cannot parse.
clauseResult(inp, piece) ==
    IF permissive(piece.op) THEN "true"
    ELSE IF piece.op \in {"~=", "==", ">=", "==="}
    THEN IF ~piece.parses THEN "throw"
         ELSE IF lt(inp, piece.version) THEN "true" ELSE "false"
    ELSE IF piece.op = ">"
    THEN IF ~piece.parses THEN "throw"
         ELSE IF lte(inp, piece.version) THEN "true" ELSE "false"
    ELSE "false"

\* A faulty invertIf: the result is never inverted.
invertIf_never(invertResult, res) == res

\* invertResult ? !result : result
invertIf(invertResult, res) == IF invertResult THEN ~res ELSE res

isLessThanRange(inp, text) ==
    LET pieces == splitRange(text)
        results == [i \in 1..Len(pieces) |-> clauseResult(inp, pieces[i])]
        invertResult == \A i \in 1..Len(pieces) : permissive(pieces[i].op)
        res == \A i \in 1..Len(results) : results[i] = "true"
    IN  IF \E i \in 1..Len(results) : results[i] = "throw" THEN FALSE
        ELSE invertIf(invertResult, res)

(***************************************************************************)
(* The inputs.                                                             *)
(***************************************************************************)
\* "other" stands for any string that is no strategy of the module.
Strategies == {"pin", "auto", "replace", "bump", "widen", "extend", "other"}

ShortVersions == {v \in Versions : Len(v) = 1}

\* Every clause text over the versions V: each operator, and the wildcard
\* suffix on the two operators that take it.  "~=" on a single component is
\* a clause the library rejects.
ClausesOver(V) ==
    {Clause(op, v, FALSE) : op \in Operators, v \in V}
        \cup {Clause(op, v, TRUE) : op \in {"==", "!="}, v \in V}

\* The empty string, a bare version, or one clause.
OneClauseValues ==
    {Text(<<>>, FALSE)}
        \cup {VersionText(v) : v \in Versions}
        \cup {Text(<<c>>, FALSE) : c \in ClausesOver(Versions)}

\* Two clauses joined by "," or by ", ".
TwoClauseValues ==
    {Text(<<a, b>>, s) : a \in ClausesOver(ShortVersions),
                         b \in ClausesOver(ShortVersions), s \in BOOLEAN}

\* The brackets ">=L,<U" and ">=L, <U".
BracketValues ==
    {Text(<<Clause(">=", l, FALSE), Clause("<", u, FALSE)>>, s) :
        l \in Versions, u \in Versions, s \in BOOLEAN}

\* The scenario of the documentation: '>=1.0.0,<2.0.0' at 1.5.0, to 2.3.0.
ScenarioValue ==
    Text(<<Clause(">=", <<1, 0, 0>>, FALSE), Clause("<", <<2, 0, 0>>, FALSE)>>, FALSE)

Idle == <<>>

\* No call of the other functions is in progress.
NoFuture == baseVersion = Idle /\ step = 0
NoPolicy == ranges = Idle
NoLess == input = Idle /\ range = Null
NoNewValue ==
    /\ currentValue = Null /\ rangeStrategy = "" /\ currentVersion = Idle
    /\ path = "" /\ calls = 0

Start == pc = "start" /\ fn = "" /\ result = Null

(***************************************************************************)
(* getNewValue: Init draws the configuration, the actions call it.         *)
(***************************************************************************)
Init ==
    /\ Start /\ NoFuture /\ NoPolicy /\ NoLess /\ path = "" /\ calls = 0
    /\ \/ currentValue \in OneClauseValues /\ currentVersion \in ShortVersions
       \/ currentValue \in TwoClauseValues /\ currentVersion = <<0>>
    /\ rangeStrategy \in Strategies
    /\ newVersion \in Versions

InitBracket ==
    /\ Start /\ NoFuture /\ NoPolicy /\ NoLess /\ path = "" /\ calls = 0
    /\ rangeStrategy = "replace"
    /\ \/ /\ currentValue \in BracketValues
          /\ currentVersion = <<0>>
          /\ newVersion \in Versions
       \/ /\ currentValue = ScenarioValue
          /\ currentVersion = <<1, 5, 0>>
          /\ newVersion = <<2, 3, 0>>

GetNewValue ==
    /\ pc = "start"
    /\ \E r \in {getNewValueCall(currentValue, rangeStrategy, currentVersion, newVersion)} :
           /\ result' = r.ret
           /\ path' = r.path
           /\ calls' = r.calls
    /\ pc' = "done"
    /\ fn' = "getNewValue"
    /\ UNCHANGED <<currentValue, rangeStrategy, currentVersion, newVersion,
                   baseVersion, step, ranges, input, range>>

GetNewValue_range ==
    /\ pc = "start"
    /\ \E r \in {getNewValueCall_range(currentValue, rangeStrategy, currentVersion, newVersion)} :
           /\ result' = r.ret
           /\ path' = r.path
           /\ calls' = r.calls
    /\ pc' = "done"
    /\ fn' = "getNewValue_range"
    /\ UNCHANGED <<currentValue, rangeStrategy, currentVersion, newVersion,
                   baseVersion, step, ranges, input, range>>

Next == GetNewValue \/ GetNewValue_range

Spec == Init /\ [][Next]_vars

SpecBracket == InitBracket /\ [][Next]_vars

(***************************************************************************)
(* getFutureVersion.                                                       *)
(***************************************************************************)
Steps == 0..MaxStep

InitFuture ==
    /\ Start /\ NoNewValue /\ NoPolicy /\ NoLess
    /\ baseVersion \in Versions
    /\ newVersion \in Versions
    /\ step \in Steps

GetFutureVersion ==
    /\ pc = "start"
    /\ result' = getFutureVersion(baseVersion, newVersion, step)
    /\ pc' = "done"
    /\ fn' = "getFutureVersion"
    /\ UNCHANGED <<currentValue, rangeStrategy, currentVersion, newVersion,
                   baseVersion, step, ranges, input, range, path, calls>>

GetFutureVersion_range ==
    /\ pc = "start"
    /\ result' = getFutureVersion_range(baseVersion, newVersion, step)
    /\ pc' = "done"
    /\ fn' = "getFutureVersion_range"
    /\ UNCHANGED <<currentValue, rangeStrategy, currentVersion, newVersion,
                   baseVersion, step, ranges, input, range, path, calls>>

NextFuture == GetFutureVersion \/ GetFutureVersion_range

SpecFuture == InitFuture /\ [][NextFuture]_vars

(***************************************************************************)
(* getUserReplacePrecision.                                                *)
(***************************************************************************)
BoundClauses ==
    {Clause(op, v, FALSE) : op \in {">=", "<"}, v \in Versions}

\* One, two or three clauses.
PolicyRanges ==
    {<<a>> : a \in BoundClauses}
        \cup {<<a, b>> : a \in BoundClauses, b \in BoundClauses}
        \cup {<<a, b, Clause("!=", v, FALSE)>> :
                    a \in BoundClauses, b \in BoundClauses, v \in ShortVersions}

InitPolicy ==
    /\ Start /\ NoNewValue /\ NoFuture /\ NoLess
    /\ newVersion = Idle
    /\ ranges \in PolicyRanges

GetUserReplacePrecision ==
    /\ pc = "start"
    /\ result' = getUserReplacePrecision(ranges)
    /\ pc' = "done"
    /\ fn' = "getUserReplacePrecision"
    /\ UNCHANGED <<currentValue, rangeStrategy, currentVersion, newVersion,
                   baseVersion, step, ranges, input, range, path, calls>>

NextPolicy == GetUserReplacePrecision

SpecPolicy == InitPolicy /\ [][NextPolicy]_vars

(***************************************************************************)
(* isLessThanRange.                                                        *)
(***************************************************************************)
InitLess ==
    /\ Start /\ NoNewValue /\ NoFuture /\ NoPolicy
    /\ newVersion = Idle
    /\ range \in OneClauseValues \cup TwoClauseValues
    /\ input \in Versions

IsLessThanRange ==
    /\ pc = "start"
    /\ result' = isLessThanRange(input, range)
    /\ pc' = "done"
    /\ fn' = "isLessThanRange"
    /\ UNCHANGED <<currentValue, rangeStrategy, currentVersion, newVersion,
                   baseVersion, step, ranges, input, range, path, calls>>

NextLess == IsLessThanRange

SpecLess == InitLess /\ [][NextLess]_vars

(***************************************************************************)
(* Properties.                                                             *)
(***************************************************************************)
DoneNewValue == pc = "done" /\ fn \in {"getNewValue", "getNewValue_range"}

gt(a, b) == compare(a, b) > 0

\* '==' + newVersion
PinText(v) == Text(<<Clause("==", v, FALSE)>>, FALSE)

\* C1, as stated: every non-null string getNewValue returns, on every return
\* path, is a constraint that the new version satisfies.
C1_EveryResultSatisfied ==
    (DoneNewValue /\ result # Null) => satisfies(newVersion, result)

\* C1, amended: every non-null string getNewValue returns, other than the
\* bare new version returned when currentValue equals currentVersion, is a
\* constraint that the new version satisfies.
C1_ConstraintResultSatisfied ==
    (DoneNewValue /\ result # Null /\ path # "version")
        => satisfies(newVersion, result)

\* A rewritten two-clause constraint was returned, and the new version is in it.
C1_Witness ==
    /\ DoneNewValue /\ path = "rewritten"
    /\ Len(result.ranges) = 2
    /\ result # currentValue
    /\ satisfies(newVersion, result)

\* currentValue is a bracket '>=L,<U' and the new version reaches U.
BracketReached ==
    /\ Len(currentValue.ranges) = 2
    /\ currentValue.ranges[1].operator = ">=" /\ ~currentValue.ranges[1].prefix
    /\ currentValue.ranges[2].operator = "<" /\ ~currentValue.ranges[2].prefix
    /\ gte(newVersion, currentValue.ranges[2].version)

\* The precision inferred from the bracket is one of Major..Bug.
PrecisionInferred ==
    getUserReplacePrecision(currentValue.ranges) \in {Major, Minor, Micro, Bug}

\* v advanced at the 0-based index p: earlier components copied, the one at
\* p incremented, later ones zero.
AdvancedAt(v, p) ==
    [i \in 1..Len(v) |-> IF i - 1 < p THEN v[i] ELSE IF i - 1 = p THEN v[i] + 1 ELSE 0]

C2_Case ==
    /\ pc = "done" /\ fn = "getNewValue" /\ rangeStrategy = "replace"
    /\ BracketReached /\ PrecisionInferred

\* C2, as stated: 'replace' on a bracket '>=L,<U' reached by the new version
\* keeps '>=L' as written and moves only the upper bound, to the new version
\* advanced at the inferred precision.
C2_LowerBoundKept ==
    C2_Case =>
        result = Text(<<currentValue.ranges[1],
                        Clause("<", AdvancedAt(newVersion,
                                   getUserReplacePrecision(currentValue.ranges)), FALSE)>>,
                      currentValue.spaced)

\* C2, amended: 'replace' on a bracket '>=L,<U' reached by the new version
\* rewrites the lower bound to '>=newVersion' and moves the upper bound to
\* the new version advanced at the inferred precision; when the new version
\* has no component at that index the result is null.
C2_LowerBoundReplaced ==
    C2_Case =>
        LET p == getUserReplacePrecision(currentValue.ranges)
        IN  result = IF p < Len(newVersion)
                     THEN Text(<<Clause(">=", newVersion, FALSE),
                                 Clause("<", AdvancedAt(newVersion, p), FALSE)>>,
                               currentValue.spaced)
                     ELSE Null

\* The documented instance: '>=1.0.0,<2.0.0' to 2.3.0 gives '>=2.3.0,<3.0.0'.
C2_Witness ==
    /\ C2_Case
    /\ currentValue = ScenarioValue
    /\ newVersion = <<2, 3, 0>>
    /\ result = Text(<<Clause(">=", <<2, 3, 0>>, FALSE),
                       Clause("<", <<3, 0, 0>>, FALSE)>>, FALSE)

\* C3: for a parseable, non-empty constraint that the new version satisfies,
\* getNewValue with 'auto' or 'replace' returns the constraint unchanged,
\* whatever currentVersion is.
C3_SatisfiedUnchanged ==
    (/\ DoneNewValue
     /\ rangeStrategy \in {"auto", "replace"}
     /\ parseRangeOk(currentValue) /\ Len(currentValue.ranges) >= 1
     /\ satisfies(newVersion, currentValue))
        => result = currentValue

C3_Witness ==
    /\ DoneNewValue /\ rangeStrategy = "auto"
    /\ Len(currentValue.ranges) = 2
    /\ satisfies(newVersion, currentValue)
    /\ result = currentValue

\* currentValue has a clause whose operator is '==='.
ArbitraryClause ==
    \E i \in 1..Len(currentValue.ranges) : currentValue.ranges[i].operator = "==="

\* C4, as stated: a constraint with a '===' clause makes getNewValue return
\* null, for every strategy and every version.
C4_ArbitraryEqualityNull ==
    (pc = "done" /\ fn = "getNewValue" /\ ArbitraryClause)
        => result = Null

\* C4, amended: a constraint with a '===' clause makes getNewValue return
\* null, except that 'pin' returns '==' + newVersion and that, for a strategy
\* other than 'bump' and 'widen', a new version that already satisfies the
\* constraint makes it return the constraint unchanged.
C4_ArbitraryEqualityNullAfterShortcuts ==
    (pc = "done" /\ fn = "getNewValue" /\ ArbitraryClause)
        => result = IF rangeStrategy = "pin" THEN PinText(newVersion)
                    ELSE IF rangeStrategy \notin {"bump", "widen"}
                            /\ satisfies(newVersion, currentValue)
                    THEN currentValue
                    ELSE Null

C4_Witness ==
    /\ pc = "done" /\ fn = "getNewValue"
    /\ ArbitraryClause
    /\ path = "arbitrary" /\ result = Null

DoneFuture == pc = "done" /\ fn \in {"getFutureVersion", "getFutureVersion_range"}

\* C5, as stated: for every base, target and step >= 1 the tuple
\* getFutureVersion returns is strictly greater than the base and than the
\* target.
C5_AboveBoth ==
    (DoneFuture /\ step >= 1)
        => gt(result, baseVersion) /\ gt(result, newVersion)

\* C5, amended: for every base, target and step >= 1 the tuple returned is
\* strictly greater than the target, and strictly greater than the base
\* whenever the target is not below the base.
C5_AboveTargetAndReachedBase ==
    (DoneFuture /\ step >= 1)
        => /\ gt(result, newVersion)
           /\ gte(newVersion, baseVersion) => gt(result, baseVersion)

\* Tuples of different lengths, target above base, no advance point found.
C5_Witness ==
    /\ DoneFuture /\ step >= 1
    /\ Len(baseVersion) < Len(newVersion)
    /\ gt(newVersion, baseVersion)
    /\ gt(result, newVersion) /\ gt(result, baseVersion)

DoneLess == pc = "done" /\ fn = "isLessThanRange"

Restrictive(op) == op \in {"~=", "==", ">=", "===", ">"}

\* C6: for a constraint with a restrictive clause, isLessThanRange is true
\* exactly when the version is strictly below the version of every '~=',
\* '==', '>=' and '===' clause and at most the version of every '>' clause.
C6_BelowEveryLowerBound ==
    (/\ DoneLess
     /\ \A i \in 1..Len(range.ranges) : range.ranges[i].operator \in Operators
     /\ \E i \in 1..Len(range.ranges) : Restrictive(range.ranges[i].operator))
        => result =
            (\A i \in 1..Len(range.ranges) :
                LET c == range.ranges[i]
                IN  /\ c.operator \in {"~=", "==", ">=", "==="} => lt(input, c.version)
                    /\ c.operator = ">" => lte(input, c.version))

\* C7: isLessThanRange is false for every version when the constraint is the
\* empty string or has only '!=', '<=' and '<' clauses.
C7_NoLowerBoundFalse ==
    (/\ DoneLess
     /\ \A i \in 1..Len(range.ranges) : range.ranges[i].operator \in {"!=", "<=", "<"})
        => result = FALSE

C7_Witness ==
    /\ DoneLess
    /\ Len(range.ranges) = 2
    /\ \A i \in 1..Len(range.ranges) : range.ranges[i].operator \in {"!=", "<=", "<"}
    /\ lt(input, range.ranges[1].version)
    /\ result = FALSE

\* C8: a constraint returned by the clause-rewriting step has one clause per
\* input clause, in the same order, and every '!=' clause of the input is in
\* it unchanged: operator, version and wildcard suffix.
C8_ExclusionsVerbatim ==
    (pc = "done" /\ fn = "getNewValue" /\ path = "rewritten")
        => /\ Len(result.ranges) = Len(currentValue.ranges)
           /\ \A k \in 1..Len(currentValue.ranges) :
                 currentValue.ranges[k].operator = "!="
                    => result.ranges[k] = currentValue.ranges[k]

\* The smallest 0-based index in 0..3 at which upper exceeds lower, a missing
\* component being zero; NullPolicy when there is none.
ExpectedPrecision(lower, upper) ==
    LET hits == {i \in {Major, Minor, Micro, Bug} : Part(upper, i + 1) > Part(lower, i + 1)}
    IN  IF hits = {} THEN NullPolicy
        ELSE CHOOSE k \in hits : \A j \in hits : k <= j

\* C9: for exactly two clauses getUserReplacePrecision returns the smallest
\* index in 0..3 at which the second clause's release exceeds the first's,
\* missing components read as zero; for any other number of clauses, and
\* when there is no such index, it returns no precision.
C9_PrecisionZeroPadded ==
    (pc = "done" /\ fn = "getUserReplacePrecision")
        => LET expected == IF Len(ranges) = 2
                           THEN ExpectedPrecision(ranges[1].version, ranges[2].version)
                           ELSE NullPolicy
           IN  IF expected = NullPolicy
               THEN result \in {NullPolicy, UndefinedPolicy}
               ELSE result = expected

====
